---- MODULE Spec2Model ----
(***************************************************************************)
(* Local CI/CD pipeline runner of repo_github_manager (core/ci_cd.py):     *)
(* load_ci_config, get_command_list, execute_command, run_ci_cd_pipeline.  *)
(***************************************************************************)
EXTENDS Integers, Sequences, FiniteSets, Bags, TLC

\* ---------------------------------------------------------------- bounds
\* Largest number of entries in the steps list of a configuration document.
MaxSteps == 2

\* Largest number of tasks submitted to the AsyncHandler.
MaxTasks == 2

\* max_workers of the AsyncHandler of the model.
MaxWorkers == 1

\* Threads that call submit_task, cancel_task and stop.
Clients == {1, 2}

\* ------------------------------------------------- values of the document
\* A value the YAML document can carry, tagged with its Python type.
Absent == [t |-> "absent", b |-> FALSE, n |-> 0, s |-> ""]
PyBool(x) == [t |-> "bool", b |-> x, n |-> 0, s |-> ""]
PyInt(x) == [t |-> "int", b |-> FALSE, n |-> x, s |-> ""]
PyStr(x) == [t |-> "str", b |-> FALSE, n |-> 0, s |-> x]

\* Python truth value of a document value (if x: / not x / x or y).
Truthy(v) ==
    CASE v.t = "bool" -> v.b
      [] v.t = "int" -> v.n # 0
      [] v.t = "str" -> v.s # ""
      [] OTHER -> FALSE

\* dict.get(key, default): the field's value, or the default when the key
\* is not in the mapping.
Get(step, key, default) == IF step[key] = Absent THEN default ELSE step[key]

\* Python's None as a value of its own (a YAML null).
None == [t |-> "none", b |-> FALSE, n |-> 0, s |-> ""]

\* Marks that show_progress_dialog has not returned yet.
NotReturned == [t |-> "notreturned", b |-> FALSE, n |-> 0, s |-> ""]

\* Default of the timeout field of a step.
DefaultTimeout == 300

\* ------------------------------------------------------------ input sets
StepNames == {PyStr("build"), PyStr("test")}
WorkingDirs == {Absent, PyStr("sub"), PyInt(5)}
AllowFailures == {Absent, PyBool(TRUE), PyBool(FALSE)}
Timeouts == {Absent, PyInt(1), PyStr("1m")}

\* Step entries that carry both name and run. The name is only copied into
\* results and messages, so every combination of the other fields is given
\* to the step "build", and the step "test" varies in allow_failure alone.
\* The last entry is written with `timeout: null`.
ValidEntries ==
    [name : {PyStr("build")}, run : {PyStr("cmd")}, working_dir : WorkingDirs,
     allow_failure : AllowFailures, timeout : Timeouts]
    \cup
    [name : {PyStr("test")}, run : {PyStr("cmd")}, working_dir : {Absent},
     allow_failure : AllowFailures, timeout : {Absent}]
    \cup
    [name : {PyStr("build")}, run : {PyStr("cmd")}, working_dir : {Absent},
     allow_failure : {Absent}, timeout : {None}]

\* Step entries that lack name, run or both.
InvalidEntries ==
    [name : {Absent}, run : {Absent, PyStr("cmd")}, working_dir : {Absent},
     allow_failure : {Absent, PyBool(TRUE)}, timeout : {Absent}]
    \cup
    [name : StepNames, run : {Absent}, working_dir : {Absent},
     allow_failure : {Absent, PyBool(TRUE)}, timeout : {Absent}]

StepEntries == ValidEntries \cup InvalidEntries

StepLists == UNION {[1..n -> StepEntries] : n \in 0..MaxSteps}

\* Step entries that are no mappings: a null, a number, two strings.
NonMappingEntries == {None, PyInt(5), PyStr("x"), PyStr("name")}

\* Steps lists with entries that are no mappings; the mappings among them
\* carry name and run only.
PlainEntries ==
    [name : StepNames, run : {PyStr("cmd")}, working_dir : {Absent},
     allow_failure : {Absent}, timeout : {Absent}]
MixedStepLists ==
    UNION {[1..n -> PlainEntries \cup NonMappingEntries] : n \in 1..MaxSteps}

\* What load_ci_config finds at <repo>/.local_ci.yaml.
\*   notfound    the file does not exist
\*   parseerror  yaml.safe_load raises
\*   null        the document is empty (safe_load returns None)
\*   nokey       a mapping without the key steps
\*   mapping     a mapping whose steps key holds the list `steps'
Documents ==
    [kind : {"notfound", "parseerror", "null", "nokey"}, steps : {<<>>}]
    \cup [kind : {"mapping"}, steps : StepLists]

\* Documents of any shape:
\*   emptymap    an empty mapping
\*   list, str   the document is a non-empty list or a string
\*   steps_null  the steps key holds null
\*   steps_int   the steps key holds a number other than 0
\*   steps_str   the steps key holds a non-empty string without "name"
\* and mappings whose steps list has entries that are no mappings.
AnyDocuments ==
    Documents
    \cup [kind : {"emptymap", "list", "str", "steps_null", "steps_int",
                  "steps_str"},
          steps : {<<>>}]
    \cup [kind : {"mapping"}, steps : MixedStepLists]

\* Paths are sequences of components.
RepoPath == <<"repo">>
SubPath == <<"repo", "sub">>

VARIABLES
    \* ----- run_ci_cd_pipeline
    config,            \* the configuration document on disk
    fs,                \* directories that exist
    pc,                \* position of run_ci_cd_pipeline
    commands,          \* commands extracted by get_command_list
    idx,               \* 1-based position of the loop over commands
    results,           \* results accumulated by run_ci_cd_pipeline
    pipeline_success,  \* pipeline_success of run_ci_cd_pipeline
    ret,               \* what run_ci_cd_pipeline returned
    child,             \* state of the child process of each step
    calls,             \* number of execute_command calls per step
    events,            \* what happened to each executed step, in order
    \* ----- AsyncHandler
    running,           \* self.running
    tasks_queue,       \* self.tasks_queue, tasks by their position in tasks
    results_queue,     \* self.results_queue
    active_tasks,      \* self.active_tasks: task id -> task (0: no entry)
    task_id_counter,   \* self.task_id_counter
    tasks,             \* the AsyncTask objects created so far
    workers,           \* the worker threads created so far, as a bag
    result_threads,    \* the result threads created so far, as a bag
    clients,           \* the threads that call the AsyncHandler
    \* ---- show_progress_dialog
    success_callback,  \* TRUE when the caller supplied success_callback
    error_callback,    \* TRUE when the caller supplied error_callback
    caller,            \* position of the calling (GUI) thread
    thread,            \* position of the worker thread
    dialog,            \* the ProgressDialog: its window and is_cancelled
    result,            \* the local variable result of show_progress_dialog
    error,             \* the local variable error of show_progress_dialog
    after,             \* the timer parent.after(100, finish)
    returned,          \* value show_progress_dialog returned
    invoked            \* the callbacks called so far, with their argument

pipelineVars == <<config, fs, pc, commands, idx, results, pipeline_success,
                  ret, child, calls, events>>

asyncVars == <<running, tasks_queue, results_queue, active_tasks,
               task_id_counter, tasks, workers, result_threads, clients>>

dialogVars == <<success_callback, error_callback, caller, thread, dialog,
                result, error, after, returned, invoked>>

vars == <<pipelineVars, asyncVars, dialogVars>>

\* ------------------------------------------------------------ messages
NoMsg == [kind |-> "none", step |-> 0, name |-> Absent]
Msg(kind, step, name) == [kind |-> kind, step |-> step, name |-> name]

\* ------------------------------------------------------ load_ci_config
\* (success, config or message) for the document found at the config path.
load_ci_config(doc) ==
    CASE doc.kind = "notfound" ->
            [ok |-> FALSE, config |-> doc, msg |-> Msg("notfound", 0, Absent)]
      [] doc.kind = "parseerror" ->
            [ok |-> FALSE, config |-> doc, msg |-> Msg("parseerror", 0, Absent)]
      [] OTHER -> [ok |-> TRUE, config |-> doc, msg |-> NoMsg]

\* ---------------------------------------------------- get_command_list
\* Exceptions that an operation on a value of the wrong type raises.
Exceptions == {"AttributeError", "TypeError"}

\* A step entry that is a mapping (the other entries are tagged values).
IsMapping(step) == "name" \in DOMAIN step

\* Python's `sub in s' for the strings of the model.
Contains(s, sub) ==
    CASE s = "name" -> sub = "name"
      [] OTHER -> FALSE

\* What the loop body does with an entry that is not a mapping: for a
\* string, `'name' not in step' is a substring test, and step['name']
\* raises TypeError; for any other value the `in' test itself raises.
NonMappingMsg(step, i) ==
    IF step.t = "str" /\ ~Contains(step.s, "name")
    THEN Msg("noname", i, Absent)
    ELSE Msg("TypeError", 0, Absent)

\* As CommandInfo, with another default for the timeout.
CommandInfo_ShortTimeout(step) ==
    [name |-> step.name,
     command |-> step.run,
     working_dir |-> Get(step, "working_dir", PyStr("")),
     allow_failure |-> Get(step, "allow_failure", PyBool(FALSE)),
     timeout |-> Get(step, "timeout", PyInt(30))]

\* The dictionary appended to commands for one step entry.
CommandInfo(step) ==
    [name |-> step.name,
     command |-> step.run,
     working_dir |-> Get(step, "working_dir", PyStr("")),
     allow_failure |-> Get(step, "allow_failure", PyBool(FALSE)),
     timeout |-> Get(step, "timeout", PyInt(DefaultTimeout))]

\* As ExtractCommands, but an entry without name or run is skipped.
RECURSIVE ExtractCommands_SkipsInvalid(_, _, _)
ExtractCommands_SkipsInvalid(steps, i, acc) ==
    IF i > Len(steps)
    THEN [ok |-> TRUE, commands |-> acc, msg |-> NoMsg]
    ELSE IF steps[i].name = Absent \/ steps[i].run = Absent
    THEN ExtractCommands_SkipsInvalid(steps, i + 1, acc)
    ELSE ExtractCommands_SkipsInvalid(steps, i + 1,
                                      Append(acc, CommandInfo(steps[i])))

\* As ExtractCommands, but the message for a missing name carries the
\* 0-based position of enumerate.
RECURSIVE ExtractCommands_ZeroBased(_, _, _)
ExtractCommands_ZeroBased(steps, i, acc) ==
    IF i > Len(steps)
    THEN [ok |-> TRUE, commands |-> acc, msg |-> NoMsg]
    ELSE IF steps[i].name = Absent
    THEN [ok |-> FALSE, commands |-> <<>>,
          msg |-> Msg("noname", i - 1, Absent)]
    ELSE IF steps[i].run = Absent
    THEN [ok |-> FALSE, commands |-> <<>>,
          msg |-> Msg("norun", 0, steps[i].name)]
    ELSE ExtractCommands_ZeroBased(steps, i + 1,
                                   Append(acc, CommandInfo(steps[i])))

\* The loop over enumerate(steps), entered at 1-based position i with the
\* commands collected so far.
RECURSIVE ExtractCommands(_, _, _)
ExtractCommands(steps, i, acc) ==
    IF i > Len(steps)
    THEN [ok |-> TRUE, commands |-> acc, msg |-> NoMsg]
    ELSE IF ~IsMapping(steps[i])
    THEN [ok |-> FALSE, commands |-> <<>>, msg |-> NonMappingMsg(steps[i], i)]
    ELSE IF steps[i].name = Absent
    THEN [ok |-> FALSE, commands |-> <<>>, msg |-> Msg("noname", i, Absent)]
    ELSE IF steps[i].run = Absent
    THEN [ok |-> FALSE, commands |-> <<>>,
          msg |-> Msg("norun", 0, steps[i].name)]
    ELSE ExtractCommands(steps, i + 1, Append(acc, CommandInfo(steps[i])))

\* The body of the try block of get_command_list. A message of a kind in
\* Exceptions stands for that exception leaving the body.
GetCommandListBody(doc) ==
    IF doc.kind \in {"null", "emptymap"}
    THEN [ok |-> FALSE, commands |-> <<>>, msg |-> Msg("empty", 0, Absent)]
    ELSE IF doc.kind \in {"list", "str"}
    THEN [ok |-> FALSE, commands |-> <<>>,
          msg |-> Msg("AttributeError", 0, Absent)]
    ELSE IF doc.kind \in {"nokey", "steps_null"}
    THEN [ok |-> FALSE, commands |-> <<>>, msg |-> Msg("nosteps", 0, Absent)]
    ELSE IF doc.kind = "steps_int"
    THEN [ok |-> FALSE, commands |-> <<>>, msg |-> Msg("TypeError", 0, Absent)]
    ELSE IF doc.kind = "steps_str"
    THEN [ok |-> FALSE, commands |-> <<>>, msg |-> Msg("noname", 1, Absent)]
    ELSE IF Len(doc.steps) = 0
    THEN [ok |-> FALSE, commands |-> <<>>, msg |-> Msg("nosteps", 0, Absent)]
    ELSE ExtractCommands(doc.steps, 1, <<>>)

\* As get_command_list, without the except clause.
get_command_list_NoExcept(doc) == GetCommandListBody(doc)

\* get_command_list: the try block, with `except Exception' turning every
\* exception into (False, message).
get_command_list(doc) ==
    IF GetCommandListBody(doc).msg.kind \in Exceptions
    THEN [ok |-> FALSE, commands |-> <<>>, msg |-> Msg("exception", 0, Absent)]
    ELSE GetCommandListBody(doc)

\* ------------------------------------------------------ execute_command
NoError == [kind |-> "absent", timeout |-> Absent, cwd |-> <<>>]

\* Python's `a or b'.
PyOr(a, b) == IF Truthy(a) THEN a ELSE b

\* The working directory of a step: repo_path joined with working_dir, or
\* repo_path itself.
Cwd(command_info, repo_path) ==
    IF Truthy(command_info.working_dir)
    THEN Append(repo_path, command_info.working_dir.s)
    ELSE repo_path

\* os.path.join(repo_path, working_dir) raises TypeError unless working_dir
\* is a string; it is only called for a truthy working_dir.
JoinRaises(command_info) ==
    Truthy(command_info.working_dir) /\ command_info.working_dir.t # "str"

\* As MissingDirResult, but the failure is subject to allow_failure.
MissingDirResult_AllowFailure(command_info, cwd) ==
    [success |-> command_info.allow_failure,
     result |-> [name |-> command_info.name,
                 success |-> command_info.allow_failure,
                 return_code |-> Absent,
                 error |-> [kind |-> "nodir", timeout |-> Absent, cwd |-> cwd],
                 stdout |-> "",
                 stderr |-> "error_msg",
                 duration |-> "0",
                 allow_failure |-> Absent]]

\* Returned when the working directory does not exist.
MissingDirResult(command_info, cwd) ==
    [success |-> PyBool(FALSE),
     result |-> [name |-> command_info.name,
                 success |-> PyBool(FALSE),
                 return_code |-> Absent,
                 error |-> [kind |-> "nodir", timeout |-> Absent, cwd |-> cwd],
                 stdout |-> "",
                 stderr |-> "error_msg",
                 duration |-> "0",
                 allow_failure |-> Absent]]

\* As NormalResult, but success is decided by the exit status alone.
NormalResult_NoOr(command_info, returncode) ==
    [success |-> PyBool(returncode = 0),
     result |-> [name |-> command_info.name,
                 success |-> PyBool(returncode = 0),
                 return_code |-> PyInt(returncode),
                 error |-> NoError,
                 stdout |-> "out",
                 stderr |-> "err",
                 duration |-> "elapsed",
                 allow_failure |-> command_info.allow_failure]]

\* Returned when communicate() returns with the process exit status.
NormalResult(command_info, returncode) ==
    LET success == PyOr(PyBool(returncode = 0), command_info.allow_failure)
    IN  [success |-> success,
         result |-> [name |-> command_info.name,
                     success |-> success,
                     return_code |-> PyInt(returncode),
                     error |-> NoError,
                     stdout |-> "out",
                     stderr |-> "err",
                     duration |-> "elapsed",
                     allow_failure |-> command_info.allow_failure]]

\* As TimeoutResult, but a timeout always fails the step.
TimeoutResult_Fails(command_info) ==
    [success |-> PyBool(FALSE),
     result |-> [name |-> command_info.name,
                 success |-> PyBool(FALSE),
                 return_code |-> Absent,
                 error |-> [kind |-> "timeout",
                            timeout |-> command_info.timeout, cwd |-> <<>>],
                 stdout |-> "",
                 stderr |-> "error_msg",
                 duration |-> "elapsed",
                 allow_failure |-> command_info.allow_failure]]

\* Returned when communicate() raises TimeoutExpired.
TimeoutResult(command_info) ==
    [success |-> command_info.allow_failure,
     result |-> [name |-> command_info.name,
                 success |-> command_info.allow_failure,
                 return_code |-> Absent,
                 error |-> [kind |-> "timeout",
                            timeout |-> command_info.timeout, cwd |-> <<>>],
                 stdout |-> "",
                 stderr |-> "error_msg",
                 duration |-> "elapsed",
                 allow_failure |-> command_info.allow_failure]]

\* As ExceptionResult, but an exception always fails the step.
ExceptionResult_Fails(command_info) ==
    [success |-> PyBool(FALSE),
     result |-> [name |-> command_info.name,
                 success |-> PyBool(FALSE),
                 return_code |-> Absent,
                 error |-> [kind |-> "exception", timeout |-> Absent,
                            cwd |-> <<>>],
                 stdout |-> "",
                 stderr |-> "str(e)",
                 duration |-> "elapsed",
                 allow_failure |-> command_info.allow_failure]]

\* Returned when Popen or communicate() raises any other exception.
ExceptionResult(command_info) ==
    [success |-> command_info.allow_failure,
     result |-> [name |-> command_info.name,
                 success |-> command_info.allow_failure,
                 return_code |-> Absent,
                 error |-> [kind |-> "exception", timeout |-> Absent,
                            cwd |-> <<>>],
                 stdout |-> "",
                 stderr |-> "str(e)",
                 duration |-> "elapsed",
                 allow_failure |-> command_info.allow_failure]]

\* --------------------------------------------------- run_ci_cd_pipeline
NoRet == [returned |-> FALSE, success |-> FALSE, msg |-> NoMsg]
Ret(success, msg) == [returned |-> TRUE, success |-> success, msg |-> msg]

Event(kind, code, kill_raised) ==
    [kind |-> kind, code |-> code, kill_raised |-> kill_raised]

\* Exit statuses a child process is given in the model.
ExitCodes == {0, 1}

\* As Halts, with the negation of allow_failure dropped.
Halts_OnAllowedFailure(success, command_info) ==
    ~Truthy(success) /\ Truthy(command_info.allow_failure)

\* As Halts, but allow_failure is not consulted.
Halts_OnAnyFailure(success, command_info) == ~Truthy(success)

\* The test that breaks the loop over commands.
Halts(success, command_info) ==
    ~Truthy(success) /\ ~Truthy(command_info.allow_failure)

\* numbers.Real as far as communicate(timeout=...) is concerned: adding the
\* timeout to the clock raises TypeError for anything else.
IsNumber(v) == v.t \in {"int", "bool"}

\* process.communicate(timeout=timeout) raises TypeError as soon as it
\* computes its deadline from a timeout that is neither a number nor None.
CommunicateRaisesAtOnce(command_info) ==
    ~IsNumber(command_info.timeout) /\ command_info.timeout # None

\* AsyncHandler.__init__ with no thread calling it yet.
AsyncIdle ==
    /\ running = FALSE
    /\ tasks_queue = <<>>
    /\ results_queue = <<>>
    /\ active_tasks = [i \in 0..(MaxTasks - 1) |-> 0]
    /\ task_id_counter = 0
    /\ tasks = <<>>
    /\ workers = EmptyBag
    /\ result_threads = EmptyBag
    /\ clients = [c \in Clients |-> [pc |-> "idle", task |-> 0]]

\* No show_progress_dialog call is in progress.
DialogIdle ==
    /\ success_callback = FALSE
    /\ error_callback = FALSE
    /\ caller = "NotCalled"
    /\ thread = "none"
    /\ dialog = [window |-> "none", is_cancelled |-> FALSE]
    /\ result = None
    /\ error = None
    /\ after = "none"
    /\ returned = NotReturned
    /\ invoked = <<>>

Init ==
    /\ AsyncIdle
    /\ DialogIdle
    /\ config \in Documents
    /\ fs \in {{RepoPath}, {RepoPath, SubPath}}
    /\ pc = "NotStarted"
    /\ commands = <<>>
    /\ idx = 0
    /\ results = <<>>
    /\ pipeline_success = TRUE
    /\ ret = NoRet
    /\ child = [i \in 1..MaxSteps |-> "none"]
    /\ calls = [i \in 1..MaxSteps |-> 0]
    /\ events = <<>>

\* run_ci_cd_pipeline up to the loop: the configuration is loaded and the
\* commands are extracted; either failure returns (False, message).
LoadConfig ==
    /\ UNCHANGED <<asyncVars, dialogVars>>
    /\ pc = "NotStarted"
    /\ LET loaded == load_ci_config(config)
           listed == get_command_list(loaded.config)
       IN  IF ~loaded.ok
           THEN /\ pc' = "ConfigError"
                /\ ret' = Ret(FALSE, loaded.msg)
                /\ UNCHANGED <<commands, idx>>
           ELSE IF listed.msg.kind \in Exceptions
           THEN /\ pc' = "Raised"
                /\ UNCHANGED <<commands, idx, ret>>
           ELSE IF ~listed.ok
           THEN /\ pc' = "ConfigError"
                /\ ret' = Ret(FALSE, listed.msg)
                /\ UNCHANGED <<commands, idx>>
           ELSE IF Len(listed.commands) = 0
           THEN /\ pc' = "Completed"
                /\ commands' = listed.commands
                /\ ret' = Ret(pipeline_success, NoMsg)
                /\ idx' = idx
           ELSE /\ pc' = "Running"
                /\ commands' = listed.commands
                /\ idx' = 1
                /\ ret' = ret
    /\ UNCHANGED <<config, fs, results, pipeline_success, child, calls, events>>

\* As LoopStep, but the break is outside of the if: the loop ends after
\* every step.
LoopStep_AlwaysBreaks(r, event) ==
    /\ results' = Append(results, r.result)
    /\ events' = Append(events, event)
    /\ idx' = idx
    /\ IF Halts(r.success, commands[idx])
       THEN /\ pipeline_success' = FALSE
            /\ pc' = "Halted"
            /\ ret' = Ret(FALSE, NoMsg)
       ELSE /\ pc' = "Completed"
            /\ ret' = Ret(pipeline_success, NoMsg)
            /\ UNCHANGED pipeline_success

\* As LoopStep, but a step that would halt the run is attempted again.
LoopStep_Retries(r, event) ==
    IF Halts(r.success, commands[idx]) /\ calls[idx] < 2
    THEN /\ pc' = "Running"
         /\ UNCHANGED <<results, events, pipeline_success, ret, idx>>
    ELSE /\ results' = Append(results, r.result)
         /\ events' = Append(events, event)
         /\ IF Halts(r.success, commands[idx])
            THEN /\ pipeline_success' = FALSE
                 /\ pc' = "Halted"
                 /\ ret' = Ret(FALSE, NoMsg)
                 /\ idx' = idx
            ELSE IF idx = Len(commands)
            THEN /\ pc' = "Completed"
                 /\ ret' = Ret(pipeline_success, NoMsg)
                 /\ UNCHANGED <<pipeline_success, idx>>
            ELSE /\ pc' = "Running"
                 /\ idx' = idx + 1
                 /\ UNCHANGED <<pipeline_success, ret>>

\* The body of the loop after execute_command returned (success, result):
\* the result is appended, then the loop breaks, ends or goes on.
LoopStep(r, event) ==
    /\ results' = Append(results, r.result)
    /\ events' = Append(events, event)
    /\ IF Halts(r.success, commands[idx])
       THEN /\ pipeline_success' = FALSE
            /\ pc' = "Halted"
            /\ ret' = Ret(FALSE, NoMsg)
            /\ idx' = idx
       ELSE IF idx = Len(commands)
       THEN /\ pc' = "Completed"
            /\ ret' = Ret(pipeline_success, NoMsg)
            /\ UNCHANGED <<pipeline_success, idx>>
       ELSE /\ pc' = "Running"
            /\ idx' = idx + 1
            /\ UNCHANGED <<pipeline_success, ret>>

\* execute_command is entered for the current command; os.path.join raises
\* TypeError outside of any try block and the exception leaves
\* run_ci_cd_pipeline.
ExecuteRaises ==
    /\ UNCHANGED <<asyncVars, dialogVars>>
    /\ pc = "Running"
    /\ JoinRaises(commands[idx])
    /\ calls' = [calls EXCEPT ![idx] = @ + 1]
    /\ pc' = "Raised"
    /\ UNCHANGED <<config, fs, commands, idx, results, pipeline_success, ret,
                   child, events>>

\* execute_command finds that the working directory does not exist.
ExecuteMissingDir ==
    /\ UNCHANGED <<asyncVars, dialogVars>>
    /\ pc = "Running"
    /\ ~JoinRaises(commands[idx])
    /\ Cwd(commands[idx], RepoPath) \notin fs
    /\ calls' = [calls EXCEPT ![idx] = @ + 1]
    /\ LoopStep(MissingDirResult(commands[idx], Cwd(commands[idx], RepoPath)),
                Event("nodir", 0, FALSE))
    /\ UNCHANGED <<config, fs, commands, child>>

\* subprocess.Popen raises (the shell cannot be started).
ExecuteLaunchError ==
    /\ UNCHANGED <<asyncVars, dialogVars>>
    /\ pc = "Running"
    /\ ~JoinRaises(commands[idx])
    /\ Cwd(commands[idx], RepoPath) \in fs
    /\ calls' = [calls EXCEPT ![idx] = @ + 1]
    /\ LoopStep(ExceptionResult(commands[idx]), Event("launch_error", 0, FALSE))
    /\ UNCHANGED <<config, fs, commands, child>>

\* subprocess.Popen starts the child process; execute_command then blocks in
\* communicate().
ExecuteLaunch ==
    /\ UNCHANGED <<asyncVars, dialogVars>>
    /\ pc = "Running"
    /\ ~JoinRaises(commands[idx])
    /\ Cwd(commands[idx], RepoPath) \in fs
    /\ calls' = [calls EXCEPT ![idx] = @ + 1]
    /\ child' = [child EXCEPT ![idx] = "running"]
    /\ pc' = "Waiting"
    /\ UNCHANGED <<config, fs, commands, idx, results, pipeline_success, ret,
                   events>>

\* The child exits within the timeout (a timeout of None is no limit) and
\* communicate() returns.
ChildExits ==
    /\ UNCHANGED <<asyncVars, dialogVars>>
    /\ pc = "Waiting"
    /\ ~CommunicateRaisesAtOnce(commands[idx])
    /\ \E returncode \in ExitCodes :
          LoopStep(NormalResult(commands[idx], returncode),
                   Event("exit", returncode, FALSE))
    /\ child' = [child EXCEPT ![idx] = "exited"]
    /\ UNCHANGED <<config, fs, commands, calls>>

\* As ChildTimesOut, but without process.kill(): the child keeps running.
ChildTimesOut_NoKill ==
    /\ UNCHANGED <<asyncVars, dialogVars>>
    /\ pc = "Waiting"
    /\ IsNumber(commands[idx].timeout)
    /\ child' = child
    /\ LoopStep(TimeoutResult(commands[idx]), Event("timeout", 0, FALSE))
    /\ UNCHANGED <<config, fs, commands, calls>>

\* communicate() raises TimeoutExpired; the child is killed, and an error
\* raised by kill() is swallowed.
ChildTimesOut ==
    /\ UNCHANGED <<asyncVars, dialogVars>>
    /\ pc = "Waiting"
    /\ IsNumber(commands[idx].timeout)
    /\ \E kill_raised \in BOOLEAN :
          /\ child' = [child EXCEPT
                          ![idx] = IF kill_raised THEN "running" ELSE "killed"]
          /\ LoopStep(TimeoutResult(commands[idx]),
                      Event("timeout", 0, kill_raised))
    /\ UNCHANGED <<config, fs, commands, calls>>

\* communicate() raises another exception: TypeError at once for a timeout
\* that is neither a number nor None (the child keeps running), or an error
\* while the output of the finished child is decoded.
ChildCommError ==
    /\ UNCHANGED <<asyncVars, dialogVars>>
    /\ pc = "Waiting"
    /\ child' = [child EXCEPT ![idx] = IF CommunicateRaisesAtOnce(commands[idx])
                                        THEN "running" ELSE "exited"]
    /\ LoopStep(ExceptionResult(commands[idx]), Event("comm_error", 0, FALSE))
    /\ UNCHANGED <<config, fs, commands, calls>>

Next ==
    \/ LoadConfig
    \/ ExecuteRaises
    \/ ExecuteMissingDir
    \/ ExecuteLaunchError
    \/ ExecuteLaunch
    \/ ChildExits
    \/ ChildTimesOut
    \/ ChildCommError

Spec == Init /\ [][Next]_vars

\* The steps that run_ci_cd_pipeline takes by itself: everything but the
\* end of the child process, which is up to the command.
ProgramStep ==
    \/ LoadConfig
    \/ ExecuteRaises
    \/ ExecuteMissingDir
    \/ ExecuteLaunchError
    \/ ExecuteLaunch
    \/ ChildTimesOut
    \/ (ChildCommError /\ CommunicateRaisesAtOnce(commands[idx]))

\* Configuration handling alone, for documents of any shape:
\* run_ci_cd_pipeline up to its loop.
InitConfig ==
    /\ AsyncIdle
    /\ DialogIdle
    /\ config \in AnyDocuments
    /\ fs = {RepoPath}
    /\ pc = "NotStarted"
    /\ commands = <<>>
    /\ idx = 0
    /\ results = <<>>
    /\ pipeline_success = TRUE
    /\ ret = NoRet
    /\ child = [i \in 1..MaxSteps |-> "none"]
    /\ calls = [i \in 1..MaxSteps |-> 0]
    /\ events = <<>>

NextConfig == LoadConfig

SpecConfig == InitConfig /\ [][NextConfig]_vars

\* The pipeline with a thread that keeps running and a timer that fires.
SpecFair == Init /\ [][Next]_vars /\ WF_vars(ProgramStep)

\* ------------------------------------------------ _on_run_cicd_clicked
\* Parameters of run_ci_cd_pipeline.
RunCiCdPipelineParams == {"repo_path"}

\* Keyword arguments of the call in the task function of the CI/CD button.
OnRunCicdKeywords == {"log_callback"}

\* A Python call raises TypeError for a keyword argument that the function
\* does not declare.
CallRaises(params, keywords) == ~(keywords \subseteq params)

\* The task function of the CI/CD button calls
\* run_ci_cd_pipeline(repo_path, log_callback=log_callback).
OnRunCicdClicked ==
    /\ pc = "NotStarted"
    /\ IF CallRaises(RunCiCdPipelineParams, OnRunCicdKeywords)
       THEN /\ pc' = "Raised"
            /\ UNCHANGED <<config, fs, commands, idx, results,
                           pipeline_success, ret, child, calls, events>>
            /\ UNCHANGED <<asyncVars, dialogVars>>
       ELSE LoadConfig

NextGui == OnRunCicdClicked

SpecGui == Init /\ [][NextGui]_vars

\* ================================================================ claims
\* The step entry a result, an event or a command at position i comes from.
Entry(i) == config.steps[i]

\* allow_failure of the step at position i as the document gives it.
EntryAllowsFailure(i) == Entry(i).allow_failure = PyBool(TRUE)

\* The step at position i ended by non-zero exit, timeout or an error of
\* Popen or communicate().
EndedByFailure(e) ==
    \/ e.kind = "exit" /\ e.code # 0
    \/ e.kind \in {"timeout", "launch_error", "comm_error"}

\* No step after position i was handed to execute_command.
NoneExecutedAfter(i) ==
    \A j \in (i + 1)..MaxSteps : calls[j] = 0 /\ child[j] = "none"

\* C1: a result with succeeded = false of a step with allow_failure = false
\* is the last entry of the result list, the run has stopped with overall
\* success false, and no later step was executed.
C1_HaltOnFailure ==
    \A i \in 1..Len(results) :
        (results[i].success = PyBool(FALSE) /\ ~EntryAllowsFailure(i))
        => /\ i = Len(results)
           /\ pc = "Halted"
           /\ ret = Ret(FALSE, NoMsg)
           /\ pipeline_success = FALSE
           /\ NoneExecutedAfter(i)

C1_Witness ==
    /\ pc = "Halted"
    /\ Len(results) = 1
    /\ Len(config.steps) = 2
    /\ events[1] = Event("exit", 1, FALSE)

\* C2: when the run returns overall success = true, every configured step
\* was executed and every result has succeeded = true.
C2_SuccessMeansAllSucceeded ==
    (ret.returned /\ ret.success)
    => /\ Len(results) = Len(config.steps)
       /\ \A i \in 1..Len(results) : results[i].success = PyBool(TRUE)

\* C3: a step whose working directory does not exist halts the run, for
\* both values of allow_failure.
C3_MissingDirHalts ==
    \A i \in 1..Len(events) :
        events[i].kind = "nodir"
        => /\ i = Len(events)
           /\ pc = "Halted"
           /\ ret = Ret(FALSE, NoMsg)
           /\ NoneExecutedAfter(i)

\* C4: when a step with allow_failure = true ends by non-zero exit, timeout
\* or launch error, the run is not halted and the overall success is not
\* made false: the loop moves on to the next configured step, or the run
\* completes with the success it had.
C4_AllowedFailureContinues ==
    [][(/\ Len(events') = Len(events) + 1
        /\ EndedByFailure(events'[Len(events')])
        /\ EntryAllowsFailure(idx))
       => /\ pc' # "Halted"
          /\ pipeline_success' = pipeline_success
          /\ IF idx < Len(config.steps)
             THEN pc' = "Running" /\ idx' = idx + 1 /\ ~ret'.returned
             ELSE pc' = "Completed" /\ ret' = Ret(pipeline_success, NoMsg)]_vars

C4_Witness ==
    /\ Len(events) = 2
    /\ events[1].kind = "timeout"
    /\ EntryAllowsFailure(1)
    /\ calls[2] = 1

\* C5: on normal completion the result carries the exit status and
\* succeeded = (exit status = 0 or allow_failure).
C5_NormalCompletion ==
    \A i \in 1..Len(events) :
        events[i].kind = "exit"
        => /\ results[i].return_code = PyInt(events[i].code)
           /\ results[i].success =
                  PyBool(events[i].code = 0 \/ EntryAllowsFailure(i))

C5_Witness ==
    /\ Len(events) = 2
    /\ events[1].kind = "exit" /\ events[1].code = 1 /\ EntryAllowsFailure(1)
    /\ events[2].kind = "exit" /\ events[2].code = 0 /\ ~EntryAllowsFailure(2)

\* timeout of the step at position i as the document gives it.
EntryTimeout(i) ==
    IF Entry(i).timeout = Absent THEN PyInt(300) ELSE Entry(i).timeout

\* C6: on timeout the result has succeeded = allow_failure, no exit code,
\* and an error that reports the timeout with the configured value.
C6_Timeout ==
    \A i \in 1..Len(events) :
        events[i].kind = "timeout"
        => /\ results[i].success = PyBool(EntryAllowsFailure(i))
           /\ results[i].return_code = Absent
           /\ results[i].error.kind = "timeout"
           /\ results[i].error.timeout = EntryTimeout(i)

C6_Witness ==
    /\ Len(events) = 2
    /\ events[1].kind = "timeout" /\ EntryAllowsFailure(1)
    /\ Entry(1).timeout = PyInt(1)
    /\ events[2].kind = "timeout" /\ ~EntryAllowsFailure(2)
    /\ Entry(2).timeout = Absent

\* C7: when Popen or communicate() raises, execute_command returns a result
\* for the step, with succeeded = allow_failure, no exit code and an error
\* diagnostic.
C7_LaunchError ==
    \A i \in 1..Len(events) :
        events[i].kind \in {"launch_error", "comm_error"}
        => /\ i <= Len(results)
           /\ results[i].success = PyBool(EntryAllowsFailure(i))
           /\ results[i].return_code = Absent
           /\ results[i].error.kind = "exception"

C7_Witness ==
    /\ Len(events) = 2
    /\ events[1].kind = "launch_error" /\ EntryAllowsFailure(1)
    /\ events[2].kind = "comm_error" /\ ~EntryAllowsFailure(2)

\* The working directory of the step at position i as the document gives
\* it: the repository root, or the root joined with working_dir.
EntryDir(i) ==
    IF Entry(i).working_dir \in {Absent, PyStr("")}
    THEN RepoPath
    ELSE <<"repo", Entry(i).working_dir.s>>

\* C8: when the resolved working directory does not exist, no child
\* process is launched and the result has succeeded = false for both values
\* of allow_failure, an error text, no exit code, empty stdout, duration 0.
C8_MissingDir ==
    \A i \in 1..Len(results) :
        EntryDir(i) \notin fs
        => /\ child[i] = "none"
           /\ results[i].success = PyBool(FALSE)
           /\ results[i].error.kind = "nodir"
           /\ results[i].return_code = Absent
           /\ results[i].stdout = ""
           /\ results[i].duration = "0"

C8_Witness ==
    /\ Len(results) = 1
    /\ EntryDir(1) \notin fs
    /\ EntryAllowsFailure(1)

\* C9: execute_command never raises to its caller.
C9_NeverRaises == pc # "Raised"

\* The configuration cannot start a run: not found, parse error, empty, no
\* steps, or a step entry without name or run.
ConfigInvalid ==
    \/ config.kind \in {"notfound", "parseerror", "null", "nokey"}
    \/ Len(config.steps) = 0
    \/ \E i \in 1..Len(config.steps) :
          Entry(i).name = Absent \/ Entry(i).run = Absent

\* C10: with an invalid configuration the run returns (false, message) and
\* executes no step at all.
C10_ConfigErrorRunsNothing ==
    ConfigInvalid
    => /\ pc \in {"NotStarted", "ConfigError"}
       /\ results = <<>>
       /\ \A i \in 1..MaxSteps : calls[i] = 0 /\ child[i] = "none"
       /\ pc = "ConfigError"
             => ret.returned /\ ~ret.success /\ ret.msg.kind # "none"

C10_Witness ==
    /\ pc = "ConfigError"
    /\ Len(config.steps) = 2
    /\ Entry(1).name # Absent /\ Entry(1).run # Absent
    /\ Entry(2).run = Absent

\* The value of an optional field of an entry, or the documented default.
OrDefault(v, default) == IF v = Absent THEN default ELSE v

\* C11: for a configuration with step entries that all have name and run,
\* get_command_list succeeds with one command per entry, in document order,
\* carrying the entry's name and run and, for each omitted optional field,
\* working_dir = "", allow_failure = false, timeout = 300.
C11_DefaultsApplied ==
    (/\ pc # "NotStarted"
     /\ config.kind = "mapping"
     /\ Len(config.steps) > 0
     /\ \A i \in 1..Len(config.steps) :
           Entry(i).name # Absent /\ Entry(i).run # Absent)
    => /\ pc # "ConfigError"
       /\ Len(commands) = Len(config.steps)
       /\ \A i \in 1..Len(commands) :
             /\ commands[i].name = Entry(i).name
             /\ commands[i].command = Entry(i).run
             /\ commands[i].working_dir =
                    OrDefault(Entry(i).working_dir, PyStr(""))
             /\ commands[i].allow_failure =
                    OrDefault(Entry(i).allow_failure, PyBool(FALSE))
             /\ commands[i].timeout = OrDefault(Entry(i).timeout, PyInt(300))

C11_Witness ==
    /\ pc = "Running"
    /\ Len(commands) = 2
    /\ Entry(1).working_dir = Absent
    /\ Entry(1).allow_failure = Absent
    /\ Entry(1).timeout = Absent
    /\ Entry(2).working_dir = PyStr("sub")
    /\ Entry(2).allow_failure = PyBool(TRUE)
    /\ Entry(2).timeout = PyInt(1)

\* Positions of the step entries that lack name or run.
InvalidPositions ==
    {i \in 1..Len(config.steps) :
        Entry(i).name = Absent \/ Entry(i).run = Absent}

\* The 1-based position of the first entry that lacks name or run.
FirstInvalid ==
    CHOOSE i \in InvalidPositions : \A j \in InvalidPositions : i <= j

\* get_command_list has failed on a step entry that lacks name or run.
FailedOnEntry ==
    pc = "ConfigError" /\ config.kind = "mapping" /\ InvalidPositions # {}

\* C12 as stated: the error of a step entry without name or without run
\* carries the 1-based position of the entry and names the missing field.
C12_ErrorCarriesPosition ==
    FailedOnEntry
    => /\ ret.msg.step = FirstInvalid
       /\ ret.msg.kind =
             IF Entry(FirstInvalid).name = Absent THEN "noname" ELSE "norun"

\* C12 amended: the error names the missing field; for a missing name it
\* carries the 1-based position of the entry, for a missing run (of an entry
\* that has a name) it carries the entry's name and no position.
C12_ErrorIdentifiesStep ==
    FailedOnEntry
    => IF Entry(FirstInvalid).name = Absent
       THEN ret.msg = Msg("noname", FirstInvalid, Absent)
       ELSE ret.msg = Msg("norun", 0, Entry(FirstInvalid).name)

C12_Witness ==
    /\ FailedOnEntry
    /\ FirstInvalid = 2
    /\ Entry(2).name = Absent

\* Steps whose child process is running.
RunningChildren == {i \in 1..MaxSteps : child[i] = "running"}

\* C13: at most one step's child process is running at any time, and a
\* step is not started before the result of the step before it was appended.
C13_OneChildAtATime ==
    /\ Cardinality(RunningChildren) <= 1
    /\ \A i \in 2..MaxSteps : calls[i] > 0 => Len(results) >= i - 1

\* Positions of the results with succeeded = false of a step with
\* allow_failure = false.
HaltPoints ==
    {i \in 1..Len(results) :
        results[i].success = PyBool(FALSE) /\ ~EntryAllowsFailure(i)}

\* C14: after a run that executed steps, the result list holds one result
\* for each of the first k configured steps, in document order with the
\* steps' names, where k is the position of the first failed step with
\* allow_failure = false, or the number of configured steps without one.
C14_ResultsArePrefix ==
    pc \in {"Completed", "Halted"}
    => /\ Len(results) <= Len(config.steps)
       /\ \A i \in 1..Len(results) : results[i].name = Entry(i).name
       /\ IF HaltPoints = {}
          THEN Len(results) = Len(config.steps)
          ELSE \A i \in HaltPoints : Len(results) = i

C14_Witness ==
    /\ pc = "Completed"
    /\ Len(results) = 2
    /\ results[1].name = PyStr("build")
    /\ results[2].name = PyStr("test")
    /\ results[1].success = PyBool(FALSE)

\* C15: within one run every configured step is handed to execute_command
\* at most once; a failed step is not attempted again.
C15_NoRetry == \A i \in 1..MaxSteps : calls[i] <= 1

C15_Witness ==
    /\ pc = "Halted"
    /\ events = <<Event("timeout", 0, FALSE)>>
    /\ calls[1] = 1

\* C20: one run is the linear state machine NotStarted -> Running(i) ->
\* Completed or HaltedOnFailure: Running starts at the first step, the step
\* index only grows by exactly one, Completed is reached only from the last
\* step, and after Completed or HaltedOnFailure no step is executed and
\* the result list does not change.  (A configuration error ends the run
\* before it starts.)
C20_LinearStateMachine ==
    [][/\ pc = "NotStarted"
          => \/ pc' = "ConfigError"
             \/ pc' = "Running" /\ idx' = 1
       /\ pc \in {"Running", "Waiting"}
          => \/ pc' = "Waiting" /\ idx' = idx /\ results' = results
             \/ pc' = "Running" /\ idx' = idx + 1
             \/ pc' = "Completed" /\ idx = Len(config.steps) /\ idx' = idx
             \/ pc' = "Halted" /\ idx' = idx
       /\ pc \in {"Completed", "Halted"}
          => UNCHANGED <<pc, idx, results, calls, child>>]_vars

\* C16: the pipeline entry point accepts a log callback; when the handler
\* of the CI/CD button calls run_ci_cd_pipeline with its log callback, the
\* pipeline is entered (its configuration is loaded and its steps run).
C16_GuiRunEntersPipeline ==
    pc # "NotStarted" => pc \in {"ConfigError", "Running", "Completed"}

\* ================================================== gui/async_handler.py
\* AsyncTask.__init__: a task that was neither cancelled nor executed.
\*   runs             number of calls of task_func
\*   outcome          "none", "result" (self.result set) or "error"
\*   callbacks        number of calls of self.callback
\*   error_callbacks  number of calls of self.error_callback
\*   cancel_phase     how far the task had come when cancel_task first
\*                    cancelled it ("none": it never did)
AsyncTask(task_id) ==
    [task_id |-> task_id, is_cancelled |-> FALSE, runs |-> 0,
     outcome |-> "none", callbacks |-> 0, error_callbacks |-> 0,
     cancel_phase |-> "none"]

\* A thread of the handler at the top of its loop.
NewThread == [pc |-> "loop", task |-> 0]

\* A bag of n new threads.
NewThreads(n) == [th \in {NewThread} |-> n]

\* The bag of threads after one thread in state th has moved to state th2.
Moved(threads, th, th2) == (threads (-) SetToBag({th})) (+) SetToBag({th2})

\* How far a task has come: "queued" (no worker has taken it), "picked" (a
\* worker took it from the queue and has not called task_func), "running"
\* (inside task_func) or "finished".
Phase(t) ==
    IF tasks[t].outcome # "none" THEN "finished"
    ELSE IF tasks[t].runs > 0 THEN "running"
    ELSE IF \E w \in BagToSet(workers) :
               w.task = t /\ w.pc \in {"got", "call"}
    THEN "picked"
    ELSE "queued"

\* Clients inside submit_task that have not created their task yet.
Submitting == {c \in Clients : clients[c].pc \in {"start", "spawn", "id"}}

\* ------------------------------------------------------------ submit_task
\* submit_task is entered: start() is called if the handler is not running.
SubmitTask(c) ==
    /\ clients[c].pc = "idle"
    /\ Len(tasks) + Cardinality(Submitting) < MaxTasks
    /\ clients' = [clients EXCEPT
                      ![c].pc = IF ~running THEN "start" ELSE "id"]
    /\ UNCHANGED <<running, tasks_queue, results_queue, active_tasks,
                   task_id_counter, tasks, workers, result_threads>>
    /\ UNCHANGED <<pipelineVars, dialogVars>>

\* start() tests self.running and returns at once if it is set.
StartCheck(c) ==
    /\ clients[c].pc = "start"
    /\ clients' = [clients EXCEPT ![c].pc = IF running THEN "id" ELSE "spawn"]
    /\ UNCHANGED <<running, tasks_queue, results_queue, active_tasks,
                   task_id_counter, tasks, workers, result_threads>>
    /\ UNCHANGED <<pipelineVars, dialogVars>>

\* start() sets self.running and creates max_workers worker threads and one
\* result thread.
StartThreads(c) ==
    /\ clients[c].pc = "spawn"
    /\ running' = TRUE
    /\ workers' = workers (+) NewThreads(MaxWorkers)
    /\ result_threads' = result_threads (+) NewThreads(1)
    /\ clients' = [clients EXCEPT ![c].pc = "id"]
    /\ UNCHANGED <<tasks_queue, results_queue, active_tasks, task_id_counter,
                   tasks>>
    /\ UNCHANGED <<pipelineVars, dialogVars>>

\* As SubmitId, but the counter is left as it is.
SubmitId_NoIncrement(c) ==
    /\ clients[c].pc = "id"
    /\ tasks' = Append(tasks, AsyncTask(task_id_counter))
    /\ clients' = [clients EXCEPT ![c] = [pc |-> "register",
                                         task |-> Len(tasks) + 1]]
    /\ UNCHANGED <<running, tasks_queue, results_queue, active_tasks, workers,
                   result_threads, task_id_counter>>
    /\ UNCHANGED <<pipelineVars, dialogVars>>

\* Under the lock the task id is taken from the counter and the counter is
\* incremented; the AsyncTask is created.
SubmitId(c) ==
    /\ clients[c].pc = "id"
    /\ tasks' = Append(tasks, AsyncTask(task_id_counter))
    /\ task_id_counter' = task_id_counter + 1
    /\ clients' = [clients EXCEPT ![c] = [pc |-> "register",
                                         task |-> Len(tasks) + 1]]
    /\ UNCHANGED <<running, tasks_queue, results_queue, active_tasks, workers,
                   result_threads>>
    /\ UNCHANGED <<pipelineVars, dialogVars>>

\* Under the lock the task is entered into active_tasks.
SubmitRegister(c) ==
    /\ clients[c].pc = "register"
    /\ active_tasks' = [active_tasks EXCEPT
                           ![tasks[clients[c].task].task_id] = clients[c].task]
    /\ clients' = [clients EXCEPT ![c].pc = "put"]
    /\ UNCHANGED <<running, tasks_queue, results_queue, task_id_counter, tasks,
                   workers, result_threads>>
    /\ UNCHANGED <<pipelineVars, dialogVars>>

\* The task is put on the tasks queue and submit_task returns its id.
SubmitPut(c) ==
    /\ clients[c].pc = "put"
    /\ tasks_queue' = Append(tasks_queue, clients[c].task)
    /\ clients' = [clients EXCEPT ![c] = [pc |-> "idle", task |-> 0]]
    /\ UNCHANGED <<running, results_queue, active_tasks, task_id_counter,
                   tasks, workers, result_threads>>
    /\ UNCHANGED <<pipelineVars, dialogVars>>

\* ------------------------------------------------------------ cancel_task
\* What cancel_task(task_id) returns.
CancelTaskReturns(task_id) == active_tasks[task_id] # 0

\* cancel_task(task_id), under the lock: a task found in active_tasks is
\* marked as cancelled.
CancelTask(c, task_id) ==
    /\ clients[c].pc = "idle"
    /\ LET t == active_tasks[task_id]
       IN  /\ tasks' = IF CancelTaskReturns(task_id)
                       THEN [tasks EXCEPT
                                ![t].is_cancelled = TRUE,
                                ![t].cancel_phase =
                                    IF @ = "none" THEN Phase(t) ELSE @]
                       ELSE tasks
    /\ UNCHANGED <<running, tasks_queue, results_queue, active_tasks,
                   task_id_counter, workers, result_threads, clients>>
    /\ UNCHANGED <<pipelineVars, dialogVars>>

\* ------------------------------------------------------------------ stop
\* stop() clears running and goes on to empty the tasks queue.
Stop(c) ==
    /\ clients[c].pc = "idle"
    /\ running' = FALSE
    /\ clients' = [clients EXCEPT ![c].pc = "drain"]
    /\ UNCHANGED <<tasks_queue, results_queue, active_tasks, task_id_counter,
                   tasks, workers, result_threads>>
    /\ UNCHANGED <<pipelineVars, dialogVars>>

\* One round of the loop of stop(): a waiting task is taken from the queue
\* and cancelled; stop() returns when the queue is empty.
StopDrain(c) ==
    /\ clients[c].pc = "drain"
    /\ IF tasks_queue = <<>>
       THEN /\ clients' = [clients EXCEPT ![c].pc = "idle"]
            /\ UNCHANGED <<tasks_queue, tasks>>
       ELSE /\ tasks_queue' = Tail(tasks_queue)
            /\ tasks' = [tasks EXCEPT ![Head(tasks_queue)].is_cancelled = TRUE]
            /\ UNCHANGED clients
    /\ UNCHANGED <<running, results_queue, active_tasks, task_id_counter,
                   workers, result_threads>>
    /\ UNCHANGED <<pipelineVars, dialogVars>>

\* ----------------------------------------------------------- _worker_loop
\* while self.running: the worker goes on to wait for a task, or ends (a
\* thread that ended leaves the bag).
WorkerLoop(w) ==
    /\ w \in BagToSet(workers)
    /\ w.pc = "loop"
    /\ workers' = IF running
                   THEN Moved(workers, w, [w EXCEPT !.pc = "get"])
                   ELSE workers (-) SetToBag({w})
    /\ UNCHANGED <<running, tasks_queue, results_queue, active_tasks,
                   task_id_counter, tasks, result_threads, clients>>
    /\ UNCHANGED <<pipelineVars, dialogVars>>

\* As WorkerGet, but the task stays on the queue.
WorkerGet_NoRemove(w) ==
    /\ w \in BagToSet(workers)
    /\ w.pc = "get"
    /\ tasks_queue # <<>>
    /\ tasks[Head(tasks_queue)].runs < 2
    /\ workers' = Moved(workers, w,
                       [pc |-> "got", task |-> Head(tasks_queue)])
    /\ UNCHANGED <<running, tasks_queue, results_queue, active_tasks,
                   task_id_counter, tasks, result_threads, clients>>
    /\ UNCHANGED <<pipelineVars, dialogVars>>

\* tasks_queue.get(timeout=0.5) returns a task.
WorkerGet(w) ==
    /\ w \in BagToSet(workers)
    /\ w.pc = "get"
    /\ tasks_queue # <<>>
    /\ workers' = Moved(workers, w,
                       [pc |-> "got", task |-> Head(tasks_queue)])
    /\ tasks_queue' = Tail(tasks_queue)
    /\ UNCHANGED <<running, results_queue, active_tasks, task_id_counter,
                   tasks, result_threads, clients>>
    /\ UNCHANGED <<pipelineVars, dialogVars>>

\* tasks_queue.get(timeout=0.5) raises queue.Empty.
WorkerGetEmpty(w) ==
    /\ w \in BagToSet(workers)
    /\ w.pc = "get"
    /\ tasks_queue = <<>>
    /\ workers' = Moved(workers, w, [w EXCEPT !.pc = "loop"])
    /\ UNCHANGED <<running, tasks_queue, results_queue, active_tasks,
                   task_id_counter, tasks, result_threads, clients>>
    /\ UNCHANGED <<pipelineVars, dialogVars>>

\* if not task.is_cancelled: a cancelled task is dropped, any other task
\* is about to be executed.
WorkerCheck(w) ==
    /\ w \in BagToSet(workers)
    /\ w.pc = "got"
    /\ workers' = Moved(workers, w,
                       IF tasks[w.task].is_cancelled
                       THEN NewThread
                       ELSE [pc |-> "call", task |-> w.task])
    /\ UNCHANGED <<running, tasks_queue, results_queue, active_tasks,
                   task_id_counter, tasks, result_threads, clients>>
    /\ UNCHANGED <<pipelineVars, dialogVars>>

\* task.execute(): a cancelled task returns at once and is put on the
\* results queue by the worker; any other task enters task_func.
WorkerExecute(w) ==
    /\ w \in BagToSet(workers)
    /\ w.pc = "call"
    /\ LET t == w.task
       IN  IF tasks[t].is_cancelled
           THEN /\ results_queue' = Append(results_queue, t)
                /\ workers' = Moved(workers, w, NewThread)
                /\ tasks' = tasks
           ELSE /\ tasks' = [tasks EXCEPT ![t].runs = @ + 1]
                /\ workers' = Moved(workers, w, [w EXCEPT !.pc = "executing"])
                /\ results_queue' = results_queue
    /\ UNCHANGED <<running, tasks_queue, active_tasks, task_id_counter,
                   result_threads, clients>>
    /\ UNCHANGED <<pipelineVars, dialogVars>>

\* task_func returns or raises; execute() stores the result or the error
\* and the worker puts the task on the results queue.
WorkerFinish(w) ==
    /\ w \in BagToSet(workers)
    /\ w.pc = "executing"
    /\ \E outcome \in {"result", "error"} :
          tasks' = [tasks EXCEPT ![w.task].outcome = outcome]
    /\ results_queue' = Append(results_queue, w.task)
    /\ workers' = Moved(workers, w, NewThread)
    /\ UNCHANGED <<running, tasks_queue, active_tasks, task_id_counter,
                   result_threads, clients>>
    /\ UNCHANGED <<pipelineVars, dialogVars>>

\* -------------------------------------------------------- _process_results
\* while self.running: the result thread goes on to wait, or ends (a
\* thread that ended leaves the bag).
ResultLoop(r) ==
    /\ r \in BagToSet(result_threads)
    /\ r.pc = "loop"
    /\ result_threads' =
          IF running
          THEN Moved(result_threads, r, [r EXCEPT !.pc = "get"])
          ELSE result_threads (-) SetToBag({r})
    /\ UNCHANGED <<running, tasks_queue, results_queue, active_tasks,
                   task_id_counter, tasks, workers, clients>>
    /\ UNCHANGED <<pipelineVars, dialogVars>>

\* results_queue.get(timeout=0.5) returns a task; under the lock its entry
\* is deleted from active_tasks.
ResultGet(r) ==
    /\ r \in BagToSet(result_threads)
    /\ r.pc = "get"
    /\ results_queue # <<>>
    /\ LET t == Head(results_queue)
       IN  /\ result_threads' = Moved(result_threads, r,
                                    [pc |-> "callback", task |-> t])
           /\ active_tasks' = [active_tasks EXCEPT ![tasks[t].task_id] = 0]
    /\ results_queue' = Tail(results_queue)
    /\ UNCHANGED <<running, tasks_queue, task_id_counter, tasks, workers,
                   clients>>
    /\ UNCHANGED <<pipelineVars, dialogVars>>

\* results_queue.get(timeout=0.5) raises queue.Empty.
ResultGetEmpty(r) ==
    /\ r \in BagToSet(result_threads)
    /\ r.pc = "get"
    /\ results_queue = <<>>
    /\ result_threads' = Moved(result_threads, r, [r EXCEPT !.pc = "loop"])
    /\ UNCHANGED <<running, tasks_queue, results_queue, active_tasks,
                   task_id_counter, tasks, workers, clients>>
    /\ UNCHANGED <<pipelineVars, dialogVars>>

\* The error callback is called for a task with an error, the success
\* callback (with task.result) for any other task.
ResultCallback(r) ==
    /\ r \in BagToSet(result_threads)
    /\ r.pc = "callback"
    /\ LET t == r.task
       IN  tasks' = IF tasks[t].outcome = "error"
                    THEN [tasks EXCEPT ![t].error_callbacks = @ + 1]
                    ELSE [tasks EXCEPT ![t].callbacks = @ + 1]
    /\ result_threads' = Moved(result_threads, r, NewThread)
    /\ UNCHANGED <<running, tasks_queue, results_queue, active_tasks,
                   task_id_counter, workers, clients>>
    /\ UNCHANGED <<pipelineVars, dialogVars>>

\* ------------------------------------------------------------------------
\* The state after AsyncHandler(); the pipeline is not in use.
InitAsync ==
    /\ AsyncIdle
    /\ DialogIdle
    /\ config = [kind |-> "notfound", steps |-> <<>>]
    /\ fs = {RepoPath}
    /\ pc = "NotStarted"
    /\ commands = <<>>
    /\ idx = 0
    /\ results = <<>>
    /\ pipeline_success = TRUE
    /\ ret = NoRet
    /\ child = [i \in 1..MaxSteps |-> "none"]
    /\ calls = [i \in 1..MaxSteps |-> 0]
    /\ events = <<>>

NextAsync ==
    \/ \E c \in Clients : SubmitTask(c)
    \/ \E c \in Clients : StartCheck(c)
    \/ \E c \in Clients : StartThreads(c)
    \/ \E c \in Clients : SubmitId(c)
    \/ \E c \in Clients : SubmitRegister(c)
    \/ \E c \in Clients : SubmitPut(c)
    \/ \E c \in Clients, task_id \in 0..(MaxTasks - 1) : CancelTask(c, task_id)
    \/ \E c \in Clients : Stop(c)
    \/ \E c \in Clients : StopDrain(c)
    \/ \E w \in BagToSet(workers) : WorkerLoop(w)
    \/ \E w \in BagToSet(workers) : WorkerGet(w)
    \/ \E w \in BagToSet(workers) : WorkerGetEmpty(w)
    \/ \E w \in BagToSet(workers) : WorkerCheck(w)
    \/ \E w \in BagToSet(workers) : WorkerExecute(w)
    \/ \E w \in BagToSet(workers) : WorkerFinish(w)
    \/ \E r \in BagToSet(result_threads) : ResultLoop(r)
    \/ \E r \in BagToSet(result_threads) : ResultGet(r)
    \/ \E r \in BagToSet(result_threads) : ResultGetEmpty(r)
    \/ \E r \in BagToSet(result_threads) : ResultCallback(r)

SpecAsync == InitAsync /\ [][NextAsync]_vars

\* The AsyncHandler used without cancel_task: tasks are submitted, executed
\* and reported, and the handler is stopped and started again.
NextAsyncRun ==
    \/ \E c \in Clients : SubmitTask(c)
    \/ \E c \in Clients : StartCheck(c)
    \/ \E c \in Clients : StartThreads(c)
    \/ \E c \in Clients : SubmitId(c)
    \/ \E c \in Clients : SubmitRegister(c)
    \/ \E c \in Clients : SubmitPut(c)
    \/ \E c \in Clients : Stop(c)
    \/ \E c \in Clients : StopDrain(c)
    \/ \E w \in BagToSet(workers) : WorkerLoop(w)
    \/ \E w \in BagToSet(workers) : WorkerGet(w)
    \/ \E w \in BagToSet(workers) : WorkerGetEmpty(w)
    \/ \E w \in BagToSet(workers) : WorkerCheck(w)
    \/ \E w \in BagToSet(workers) : WorkerExecute(w)
    \/ \E w \in BagToSet(workers) : WorkerFinish(w)
    \/ \E r \in BagToSet(result_threads) : ResultLoop(r)
    \/ \E r \in BagToSet(result_threads) : ResultGet(r)
    \/ \E r \in BagToSet(result_threads) : ResultGetEmpty(r)
    \/ \E r \in BagToSet(result_threads) : ResultCallback(r)

SpecAsyncRun == InitAsync /\ [][NextAsyncRun]_vars

\* The steps a thread takes once it is inside a call or a loop: a client goes
\* on with the submit_task or stop it has entered, a worker and a result
\* thread go on with their loop, and a task function returns or raises.
\* That a client calls submit_task, cancel_task or stop at all is up to it.
ClientStep ==
    \E c \in Clients :
        \/ StartCheck(c)
        \/ StartThreads(c)
        \/ SubmitId(c)
        \/ SubmitRegister(c)
        \/ SubmitPut(c)
        \/ StopDrain(c)

WorkerStep ==
    \E w \in BagToSet(workers) :
        \/ WorkerLoop(w)
        \/ WorkerGet(w)
        \/ WorkerGetEmpty(w)
        \/ WorkerCheck(w)
        \/ WorkerExecute(w)
        \/ WorkerFinish(w)

ResultStep ==
    \E r \in BagToSet(result_threads) :
        \/ ResultLoop(r)
        \/ ResultGet(r)
        \/ ResultGetEmpty(r)
        \/ ResultCallback(r)

\* The AsyncHandler with threads that keep running.
SpecAsyncFair ==
    /\ InitAsync
    /\ [][NextAsync]_vars
    /\ WF_vars(ClientStep)
    /\ WF_vars(WorkerStep)
    /\ WF_vars(ResultStep)

\* ========================================================================
\* show_progress_dialog (gui/dialogs.py)
\*
\* caller: "NotCalled" -> "created" -> "started" -> "returned"
\* thread: "none" -> "task" -> "finally" -> "done"
\* after:  "none" -> "scheduled" -> "done"

\* What task_func(dialog) can return, and the exception it can raise.
TaskResults == {None, PyInt(1), PyStr("ok")}
TaskError == PyStr("boom")

\* The message finish() hands to error_callback for a cancelled dialog.
CancelledMessage == PyStr("cancelled")

\* One callback invocation.
Invocation(callback, arg) == [callback |-> callback, arg |-> arg]

\* show_progress_dialog is called: the dialog is created, result and error
\* are None.
CreateDialog ==
    /\ caller = "NotCalled"
    /\ caller' = "created"
    /\ dialog' = [window |-> "open", is_cancelled |-> FALSE]
    /\ result' = None
    /\ error' = None
    /\ UNCHANGED <<success_callback, error_callback, thread, after, returned,
                   invoked>>
    /\ UNCHANGED <<pipelineVars, asyncVars>>

\* thread.start()
ThreadStart ==
    /\ caller = "created"
    /\ caller' = "started"
    /\ thread' = "task"
    /\ UNCHANGED <<success_callback, error_callback, dialog, result, error,
                   after, returned, invoked>>
    /\ UNCHANGED <<pipelineVars, asyncVars>>

\* return result: the calling thread reads result as it is at that moment.
ReturnResult ==
    /\ caller = "started"
    /\ caller' = "returned"
    /\ returned' = result
    /\ UNCHANGED <<success_callback, error_callback, thread, dialog, result,
                   error, after, invoked>>
    /\ UNCHANGED <<pipelineVars, asyncVars>>

\* worker(): task_func(dialog) returns a value, which is stored in result.
TaskReturns ==
    /\ thread = "task"
    /\ \E v \in TaskResults : result' = v
    /\ thread' = "finally"
    /\ UNCHANGED <<success_callback, error_callback, caller, dialog, error,
                   after, returned, invoked>>
    /\ UNCHANGED <<pipelineVars, asyncVars>>

\* worker(): task_func(dialog) raises, the exception is stored in error.
TaskRaises ==
    /\ thread = "task"
    /\ error' = TaskError
    /\ thread' = "finally"
    /\ UNCHANGED <<success_callback, error_callback, caller, dialog, result,
                   after, returned, invoked>>
    /\ UNCHANGED <<pipelineVars, asyncVars>>

\* worker(), finally: parent.after(100, finish)
ScheduleFinish ==
    /\ thread = "finally"
    /\ thread' = "done"
    /\ after' = "scheduled"
    /\ UNCHANGED <<success_callback, error_callback, caller, dialog, result,
                   error, returned, invoked>>
    /\ UNCHANGED <<pipelineVars, asyncVars>>

\* ProgressDialog.cancel(): the user presses the cancel button or Escape.
\* The event is handled by the main loop, once the caller is back in it, or
\* by an update() of the dialog that the running task asks for.
Cancel ==
    /\ dialog.window = "open"
    /\ caller = "returned" \/ thread = "task"
    /\ dialog' = [dialog EXCEPT !.is_cancelled = TRUE]
    /\ UNCHANGED <<success_callback, error_callback, caller, thread, result,
                   error, after, returned, invoked>>
    /\ UNCHANGED <<pipelineVars, asyncVars>>

\* As FinishCall, without the test of dialog.is_cancelled.
FinishCall_IgnoresCancel ==
    IF Truthy(error)
    THEN IF error_callback
         THEN Invocation("error_callback", error)
         ELSE Invocation("messagebox", error)
    ELSE IF success_callback
         THEN Invocation("success_callback", result)
         ELSE Invocation("none", None)

\* The callback finish() calls, with its argument; "messagebox" stands for
\* messagebox.showerror, "none" for no call at all.
FinishCall ==
    IF dialog.is_cancelled
    THEN IF error_callback
         THEN Invocation("error_callback", CancelledMessage)
         ELSE Invocation("none", None)
    ELSE IF Truthy(error)
    THEN IF error_callback
         THEN Invocation("error_callback", error)
         ELSE Invocation("messagebox", error)
    ELSE IF success_callback
         THEN Invocation("success_callback", result)
         ELSE Invocation("none", None)

\* finish(), run by the main loop when the timer is due: the dialog is
\* closed and one callback is called.
Finish ==
    /\ after = "scheduled"
    /\ caller = "returned"
    /\ after' = "done"
    /\ dialog' = [dialog EXCEPT !.window = "closed"]
    /\ invoked' = IF FinishCall.callback = "none"
                  THEN invoked
                  ELSE Append(invoked, FinishCall)
    /\ UNCHANGED <<success_callback, error_callback, caller, thread, result,
                   error, returned>>
    /\ UNCHANGED <<pipelineVars, asyncVars>>

\* The state before a show_progress_dialog call, with either callback
\* supplied or left out; the pipeline and the AsyncHandler are not in use.
InitDialog ==
    /\ AsyncIdle
    /\ success_callback \in BOOLEAN
    /\ error_callback \in BOOLEAN
    /\ caller = "NotCalled"
    /\ thread = "none"
    /\ dialog = [window |-> "none", is_cancelled |-> FALSE]
    /\ result = None
    /\ error = None
    /\ after = "none"
    /\ returned = NotReturned
    /\ invoked = <<>>
    /\ config = [kind |-> "notfound", steps |-> <<>>]
    /\ fs = {RepoPath}
    /\ pc = "NotStarted"
    /\ commands = <<>>
    /\ idx = 0
    /\ results = <<>>
    /\ pipeline_success = TRUE
    /\ ret = NoRet
    /\ child = [i \in 1..MaxSteps |-> "none"]
    /\ calls = [i \in 1..MaxSteps |-> 0]
    /\ events = <<>>

NextDialog ==
    \/ CreateDialog
    \/ ThreadStart
    \/ ReturnResult
    \/ TaskReturns
    \/ TaskRaises
    \/ ScheduleFinish
    \/ Cancel
    \/ Finish

SpecDialog == InitDialog /\ [][NextDialog]_vars

\* ------------------------------------------------------------------------
\* Claims about show_progress_dialog.

\* The task function returned (it did not raise).
TaskSucceeded == thread \in {"finally", "done"} /\ error = None

\* C19: show_progress_dialog returns the result of the task function when
\* the task succeeds, and None only when the task was cancelled or raised
\* an error.
C19_ReturnsTaskResult ==
    (after = "done" /\ TaskSucceeded /\ ~dialog.is_cancelled)
        => returned = result

\* ------------------------------------------------------------------------
\* Claims about the AsyncHandler.

\* The tasks that cancel_task cancelled before a worker started executing
\* them.
CancelledUnstarted ==
    {t \in 1..Len(tasks) : tasks[t].cancel_phase \in {"queued", "picked"}}

\* C17: a task cancelled with cancel_task before any worker has started
\* executing it never has its task function run, and neither its success
\* callback nor its error callback is ever invoked.
C17_CancelledNeverRuns ==
    \A t \in CancelledUnstarted :
        /\ tasks[t].runs = 0
        /\ tasks[t].callbacks = 0
        /\ tasks[t].error_callbacks = 0

\* C18: cancel_task returns true only for a task that has not yet started
\* executing; for a task that is running or has finished it returns false.
C18_CancelTrueOnlyUnstarted ==
    \A t \in 1..Len(tasks) :
        tasks[t].cancel_phase \in {"none", "queued", "picked"}

\* ------------------------------------------------------------------------
\* Further claims about the pipeline.

\* C21: every pipeline run terminates; the wait for the child process is
\* the only blocking point, and it always ends by process exit or by expiry
\* of the step's timeout (the child itself need not ever exit).
C21_WaitEnds == (pc = "Waiting") ~> (pc # "Waiting")

C23_ResultCarriesAllowFailure ==
    \A i \in 1..Len(results) :
        /\ results[i].name = Entry(i).name
        /\ results[i].allow_failure = PyBool(EntryAllowsFailure(i))

\* The document has no content: null (or an empty file), or an empty mapping.
EmptyDocument == config.kind \in {"null", "emptymap"}

\* The document is a mapping whose steps list is missing, null or empty.
NoStepsDocument ==
    \/ config.kind \in {"nokey", "steps_null"}
    \/ config.kind = "mapping" /\ config.steps = <<>>

\* The document, its steps value or one of its entries has the wrong type.
IllTypedDocument ==
    \/ config.kind \in {"list", "str", "steps_int", "steps_str"}
    \/ /\ config.kind = "mapping"
       /\ \E i \in 1..Len(config.steps) : ~IsMapping(config.steps[i])

\* C24: configuration handling never raises; for every document, whatever
\* its shape, load_ci_config and get_command_list return a pair, which is
\* (False, message) for a document they cannot use, and an empty document
\* and a missing or empty steps list are reported as two distinct errors.
C24_ConfigNeverRaises ==
    pc # "NotStarted"
    => /\ pc # "Raised"
       /\ pc = "ConfigError" => ret = Ret(FALSE, ret.msg) /\ ret.msg # NoMsg
       /\ config.kind \in {"notfound", "parseerror"} => pc = "ConfigError"
       /\ EmptyDocument => pc = "ConfigError" /\ ret.msg.kind = "empty"
       /\ NoStepsDocument => pc = "ConfigError" /\ ret.msg.kind = "nosteps"
       /\ IllTypedDocument => pc = "ConfigError"

\* A steps list with an entry that is a number was turned into an error
\* message by the except clause.
C24_Witness ==
    /\ pc = "ConfigError"
    /\ config.kind = "mapping"
    /\ Len(config.steps) = 2
    /\ config.steps[2] = PyInt(5)
    /\ ret.msg.kind = "exception"

\* ------------------------------------------------------------------------
\* Further claims about the AsyncHandler.

\* The task created as number t was started by a worker.
Started(t) == t <= Len(tasks) /\ tasks[t].runs > 0

\* One of the two callbacks of the task created as number t was invoked.
CalledBack(t) ==
    t <= Len(tasks) /\ tasks[t].callbacks + tasks[t].error_callbacks > 0

\* C25: every task that a worker starts executing eventually has one of
\* its two callbacks invoked, also when stop() is called while it runs.
C25_StartedTaskIsCalledBack ==
    \A t \in 1..MaxTasks : Started(t) ~> CalledBack(t)

\* C26: the task function of a task is executed at most once, and at most
\* one callback invocation ever happens for the task.
C26_AtMostOnce ==
    \A t \in 1..Len(tasks) :
        /\ tasks[t].runs <= 1
        /\ tasks[t].callbacks + tasks[t].error_callbacks <= 1

\* Two tasks were submitted, the second by a submit_task that started the
\* handler again or while two generations of threads were alive; each was
\* executed and called back.
C26_Witness ==
    /\ Len(tasks) = 2
    /\ \A t \in 1..2 : tasks[t].runs = 1 /\ CalledBack(t)
    /\ BagCardinality(workers) > MaxWorkers

\* The task created as number t is entered in active_tasks.
Registered(t) == t <= Len(tasks) /\ active_tasks[tasks[t].task_id] = t

\* The task created as number t has completed, failed or been cancelled.
Over(t) ==
    t <= Len(tasks) /\ (tasks[t].outcome # "none" \/ tasks[t].is_cancelled)

\* C27: every submitted task is eventually removed from active_tasks once
\* it has completed, failed or been cancelled.
C27_OverTaskIsRemoved ==
    \A t \in 1..MaxTasks : Over(t) ~> ~Registered(t)

\* C28: at any time at most max_workers worker threads and at most one
\* result thread are alive.
C28_ThreadsBounded ==
    /\ BagCardinality(workers) <= MaxWorkers
    /\ BagCardinality(result_threads) <= 1

\* C30: the task ids handed out by submit_task are pairwise distinct, and
\* no entry of active_tasks is ever overwritten by another task.
C30_DistinctTaskIds ==
    [][/\ \A t, u \in 1..Len(tasks') :
             t # u => tasks'[t].task_id # tasks'[u].task_id
       /\ \A id \in DOMAIN active_tasks :
             active_tasks[id] # 0
             => active_tasks'[id] \in {0, active_tasks[id]}]_vars

\* Two clients were inside submit_task at the same time and both tasks are
\* entered in active_tasks.
C30_Witness ==
    /\ Len(tasks) = 2
    /\ Registered(1) /\ Registered(2)
    /\ \A c \in Clients : clients[c].pc = "put"

\* ------------------------------------------------------------------------
\* Further claims about show_progress_dialog.

\* The one invocation the claim asks for, given how the call ended.
ExpectedInvocation ==
    IF dialog.is_cancelled
    THEN Invocation("error_callback", CancelledMessage)
    ELSE IF thread = "done" /\ error # None
    THEN Invocation("error_callback", error)
    ELSE Invocation("success_callback", result)

\* C29: with both callbacks supplied, exactly one callback invocation
\* happens per call, and only after the task function has returned or
\* raised: error_callback if the dialog was cancelled or the task raised,
\* success_callback with the task's result otherwise.
C29_OneCallback ==
    (success_callback /\ error_callback)
    => /\ Len(invoked) <= 1
       /\ invoked # <<>> => thread = "done"
       /\ after = "done" => invoked = <<ExpectedInvocation>>

\* The task succeeded, the dialog was cancelled, and finish() called
\* error_callback.
C29_Witness ==
    /\ success_callback /\ error_callback
    /\ after = "done"
    /\ TaskSucceeded /\ result = PyInt(1)
    /\ dialog.is_cancelled
    /\ invoked = <<Invocation("error_callback", CancelledMessage)>>

====
